---- MODULE Spec2Model ----
(***************************************************************************)
(* Model of app.py, the Streamlit earthquake/tsunami explorer.             *)
(*                                                                         *)
(* The script is executed top to bottom once per run; Streamlit starts a   *)
(* new run for every widget interaction and for every page (re)load.  The  *)
(* model follows one server process: the CSV file on disk, the st.cache_data*)
(* memo of load_data, the widget state of the session and the position of  *)
(* the script inside the current run.                                      *)
(*                                                                         *)
(* Numbers with one decimal (magnitudes, the slider, the raw Year column)  *)
(* are kept as integers in tenths, so the slider step 0.1 is 1.  A mean is *)
(* kept exactly, as the pair (sum, n).                                     *)
(***************************************************************************)
EXTENDS Integers, Sequences, FiniteSets, TLC

\* ------------------------------------------------------------------ bounds
MaxRows == 2

\* --------------------------------------------------------------- constants
Tenths == 10
PreviewRows == 20
NaN == -1
None == -2

Columns == {"Year", "magnitude", "depth", "latitude", "longitude", "tsunami"}
DropnaSubset == {"magnitude", "depth", "Year", "latitude", "longitude"}

\* ------------------------------------------------------------ input files
BaseRow ==
    [Year |-> 2021 * Tenths, magnitude |-> 65, depth |-> 10,
     latitude |-> 0, longitude |-> 0, tsunami |-> 1]

CleanRows ==
    [Year : {2021 * Tenths, 2022 * Tenths}, magnitude : {65, 67}, depth : {10},
     latitude : {0}, longitude : {0}, tsunami : {0, 1}]

DirtyRows ==
    {[BaseRow EXCEPT ![c] = NaN] : c \in DropnaSubset}
        \cup {[BaseRow EXCEPT !.tsunami = t] : t \in {NaN, 2}}
        \cup {[BaseRow EXCEPT !.Year = 2021 * Tenths + 5]}

RawRows == CleanRows \cup DirtyRows

Restrict(row, cols) == [c \in cols |-> row[c]]

SeqsUpTo(S, n) == UNION {[1..k -> S] : k \in 0..n}

\* One file longer than the preview: 21 complete rows of 2022, three of 2021
\* and rows without a depth in between.
LongRows ==
    [i \in 1..(PreviewRows + 8) |->
        [BaseRow EXCEPT !.Year = IF i % 8 = 0 THEN 2021 * Tenths ELSE 2022 * Tenths,
                        !.magnitude = IF i % 3 = 0 THEN 67 ELSE 65,
                        !.depth = IF i % 7 = 0 THEN NaN ELSE 10,
                        !.tsunami = i % 2]]

MissingFile == [exists |-> FALSE, columns |-> {}, rows |-> <<>>]

GoodFiles ==
    {[exists |-> TRUE, columns |-> Columns, rows |-> rs] :
        rs \in SeqsUpTo(RawRows, MaxRows) \cup {LongRows}}

BadSchemaFiles ==
    {[exists |-> TRUE, columns |-> Columns \ {c},
      rows |-> <<Restrict(BaseRow, Columns \ {c})>>] : c \in Columns}

Files == GoodFiles \cup BadSchemaFiles \cup {MissingFile}

\* --------------------------------------------------------------- load_data
\* Faulty variant: dropna over magnitude and Year only.
NotNa_partial(row) == \A c \in {"magnitude", "Year"} : row[c] # NaN

NotNa(row) == \A c \in DropnaSubset : row[c] # NaN

dropna(df) == SelectSeq(df, NotNa)

astype_int(x) == x \div Tenths

tsunami_label(x) == IF x = 1 THEN "Yes" ELSE "No"

CleanRow(row) ==
    [row EXCEPT !.Year = astype_int(row.Year), !.tsunami = tsunami_label(row.tsunami)]

read_csv_ok(file) == file.exists /\ Columns \subseteq file.columns

load_data(file) ==
    LET df == dropna(file.rows)
    IN  [i \in 1..Len(df) |-> CleanRow(df[i])]

\* ------------------------------------------------------------------ helpers
Range(s) == {s[i] : i \in 1..Len(s)}

SetMin(S) == CHOOSE x \in S : \A y \in S : x <= y
SetMax(S) == CHOOSE x \in S : \A y \in S : y <= x

RECURSIVE sorted(_)
sorted(S) == IF S = {} THEN <<>> ELSE <<SetMin(S)>> \o sorted(S \ {SetMin(S)})

unique(d, col) == {d[i][col] : i \in 1..Len(d)}

years(d) == sorted(unique(d, "Year"))

min_mag(d) == IF d = <<>> THEN NaN ELSE SetMin(unique(d, "magnitude"))
max_mag(d) == IF d = <<>> THEN NaN ELSE SetMax(unique(d, "magnitude"))

\* ------------------------------------------------------------------ widgets
\* st.selectbox: the stored choice of the session, else options[index];
\* over an empty option list it returns None.  `index` is 1-based here.
selectbox(options, index, state) ==
    IF options = <<>> THEN None
    ELSE IF state # <<>> THEN state[1]
    ELSE options[index]

default_index(options) == Len(options)

\* Faulty variant: the slider starts collapsed on the minimum.
default_value_low(lo, hi) == <<lo, lo>>

default_value(lo, hi) == <<lo, hi>>

\* st.slider: the stored range of the session, else `value`.
slider(value, state) == IF state # <<>> THEN <<state[2], state[3]>> ELSE value

\* What the user can set the two widgets to.
slider_positions(lo, hi) == {<<a, b>> \in (lo..hi) \X (lo..hi) : a <= b}

\* ------------------------------------------------------------------ queries
\* Faulty variant: the upper bound is exclusive.
between_exclusive(x, left, right) ==
    /\ x # NaN /\ left # NaN /\ right # NaN
    /\ left <= x /\ x < right

between(x, left, right) ==
    /\ x # NaN /\ left # NaN /\ right # NaN
    /\ left <= x /\ x <= right

filter_rows(d, year, range) ==
    SelectSeq(d, LAMBDA r : r.Year = year /\ between(r.magnitude, range[1], range[2]))

RECURSIVE sum(_, _)
sum(d, col) == IF d = <<>> THEN 0 ELSE Head(d)[col] + sum(Tail(d), col)

group(d, col, key) == SelectSeq(d, LAMBDA r : r[col] = key)

\* Faulty variant: the mean of the whole frame for every year.
group_mean_all(d, year) ==
    [Year |-> year, total |-> sum(d, "magnitude"), n |-> Len(d)]

group_mean(d, year) ==
    LET g == group(d, "Year", year)
    IN  [Year |-> year, total |-> sum(g, "magnitude"), n |-> Len(g)]

groupby_mean(d) ==
    LET ys == years(d) IN [i \in 1..Len(ys) |-> group_mean(d, ys[i])]

\* Faulty variant: both labels are listed, with a zero count if need be.
value_counts_both(d, col) ==
    [k \in {"Yes", "No"} |-> Len(group(d, col, k))]

value_counts(d, col) ==
    [k \in unique(d, col) |-> Len(group(d, col, k))]

head(d, n) == SubSeq(d, 1, IF Len(d) < n THEN Len(d) ELSE n)

is_empty(d) == d = <<>>

\* -------------------------------------------------------------------- state
VARIABLES
    disk,                \* earthquake.csv as it is on disk now
    cache,               \* the st.cache_data memo of load_data
    widget_input,        \* widget state of the session: <<>> or <<year, low, high>>
    pc,                  \* position of the script in the current run
    error,               \* the uncaught exception that ended the run, or "none"
    data,                \* line 28
    selected_year,       \* line 33
    selected_mag_range,  \* line 37
    filtered,            \* line 45
    avg_mag,             \* line 56, drawn as fig1
    fig2,                \* data frame drawn by the scatter plot
    tsunami_count,       \* line 83, drawn as fig3
    fig_map,             \* data frame drawn by the map
    rendered,            \* elements put on the page by this run
    preview              \* rows shown in the expander

vars ==
    <<disk, cache, widget_input, pc, error, data, selected_year, selected_mag_range,
      filtered, avg_mag, fig2, tsunami_count, fig_map, rendered, preview>>

run_locals ==
    <<data, selected_year, selected_mag_range, filtered, avg_mag, fig2,
      tsunami_count, fig_map, rendered, preview>>

outputs == <<avg_mag, fig2, tsunami_count, fig_map, rendered, preview>>

NoCache == [hit |-> FALSE, value |-> <<>>]

FreshRun ==
    /\ pc' = "start"
    /\ error' = "none"
    /\ data' = <<>>
    /\ selected_year' = None
    /\ selected_mag_range' = <<NaN, NaN>>
    /\ filtered' = <<>>
    /\ avg_mag' = <<>>
    /\ fig2' = <<>>
    /\ tsunami_count' = <<>>
    /\ fig_map' = <<>>
    /\ rendered' = {}
    /\ preview' = <<>>

Init ==
    /\ disk \in Files
    /\ cache = NoCache
    /\ widget_input = <<>>
    /\ pc = "start"
    /\ error = "none"
    /\ data = <<>>
    /\ selected_year = None
    /\ selected_mag_range = <<NaN, NaN>>
    /\ filtered = <<>>
    /\ avg_mag = <<>>
    /\ fig2 = <<>>
    /\ tsunami_count = <<>>
    /\ fig_map = <<>>
    /\ rendered = {}
    /\ preview = <<>>

\* ------------------------------------------------------------ script steps
\* Faulty variant: a failed read is swallowed and the run goes on with no rows.
LoadSwallow ==
    /\ pc = "start"
    /\ \/ /\ cache.hit
          /\ data' = cache.value
          /\ UNCHANGED cache
       \/ /\ ~cache.hit
          /\ read_csv_ok(disk)
          /\ cache' = [hit |-> TRUE, value |-> load_data(disk)]
          /\ data' = load_data(disk)
       \/ /\ ~cache.hit
          /\ ~read_csv_ok(disk)
          /\ data' = <<>>
          /\ UNCHANGED cache
    /\ pc' = "loaded"
    /\ UNCHANGED <<disk, widget_input, error, selected_year, selected_mag_range,
                   filtered, outputs>>

\* Faulty variant: load_data without the memo, the file is read in every run.
LoadUncached ==
    /\ pc = "start"
    /\ \/ /\ read_csv_ok(disk)
          /\ cache' = [hit |-> TRUE, value |-> load_data(disk)]
          /\ data' = load_data(disk)
          /\ pc' = "loaded"
          /\ UNCHANGED error
       \/ /\ ~read_csv_ok(disk)
          /\ error' = IF disk.exists THEN "KeyError" ELSE "FileNotFoundError"
          /\ pc' = "error"
          /\ UNCHANGED <<cache, data>>
    /\ UNCHANGED <<disk, widget_input, selected_year, selected_mag_range, filtered,
                   outputs>>

\* Lines 17-28: data = load_data(), memoised by st.cache_data.  An exception
\* of read_csv, dropna or the column access is not caught and is not cached.
Load ==
    /\ pc = "start"
    /\ \/ /\ cache.hit
          /\ data' = cache.value
          /\ pc' = "loaded"
          /\ UNCHANGED <<cache, error>>
       \/ /\ ~cache.hit
          /\ read_csv_ok(disk)
          /\ cache' = [hit |-> TRUE, value |-> load_data(disk)]
          /\ data' = load_data(disk)
          /\ pc' = "loaded"
          /\ UNCHANGED error
       \/ /\ ~cache.hit
          /\ ~read_csv_ok(disk)
          /\ error' = IF disk.exists THEN "KeyError" ELSE "FileNotFoundError"
          /\ pc' = "error"
          /\ UNCHANGED <<cache, data>>
    /\ UNCHANGED <<disk, widget_input, selected_year, selected_mag_range, filtered,
                   outputs>>

\* Lines 30-43: the two sidebar widgets.  Over an empty record set the
\* selectbox has no option and min_mag, max_mag are NaN; whether st.slider
\* accepts NaN bounds is left open (it returns them or raises).
Widgets ==
    /\ pc = "loaded"
    /\ selected_year' = selectbox(years(data), default_index(years(data)), widget_input)
    /\ selected_mag_range' =
           slider(default_value(min_mag(data), max_mag(data)), widget_input)
    /\ \/ /\ pc' = "selected"
          /\ UNCHANGED error
       \/ /\ is_empty(data)
          /\ pc' = "error"
          /\ error' = "StreamlitAPIException"
    /\ UNCHANGED <<disk, cache, widget_input, data, filtered, outputs>>

\* Lines 45-52.
Filter ==
    /\ pc = "selected"
    /\ filtered' = filter_rows(data, selected_year, selected_mag_range)
    /\ pc' = "filtered"
    /\ UNCHANGED <<disk, cache, widget_input, error, data, selected_year,
                   selected_mag_range, outputs>>

\* Lines 54-66.
Trend ==
    /\ pc = "filtered"
    /\ avg_mag' = groupby_mean(data)
    /\ rendered' = rendered \cup {"fig1"}
    /\ pc' = "fig1"
    /\ UNCHANGED <<disk, cache, widget_input, error, data, selected_year,
                   selected_mag_range, filtered, fig2, tsunami_count, fig_map, preview>>

\* Lines 68-79.
Scatter ==
    /\ pc = "fig1"
    /\ fig2' = filtered
    /\ rendered' = rendered \cup {"fig2"}
    /\ pc' = "fig2"
    /\ UNCHANGED <<disk, cache, widget_input, error, data, selected_year,
                   selected_mag_range, filtered, avg_mag, tsunami_count, fig_map,
                   preview>>

\* Faulty variant: the pie chart counts the filtered rows.
PieFiltered ==
    /\ pc = "fig2"
    /\ tsunami_count' = value_counts(filtered, "tsunami")
    /\ rendered' = rendered \cup {"fig3"}
    /\ pc' = "fig3"
    /\ UNCHANGED <<disk, cache, widget_input, error, data, selected_year,
                   selected_mag_range, filtered, avg_mag, fig2, fig_map, preview>>

\* Lines 81-94.  The order of the slices is not modelled.
Pie ==
    /\ pc = "fig2"
    /\ tsunami_count' = value_counts(data, "tsunami")
    /\ rendered' = rendered \cup {"fig3"}
    /\ pc' = "fig3"
    /\ UNCHANGED <<disk, cache, widget_input, error, data, selected_year,
                   selected_mag_range, filtered, avg_mag, fig2, fig_map, preview>>

\* Faulty variant: the map is drawn whatever the filter returned.
MapUnguarded ==
    /\ pc = "fig3"
    /\ fig_map' = filtered
    /\ rendered' = rendered \cup {"fig_map"}
    /\ pc' = "map"
    /\ UNCHANGED <<disk, cache, widget_input, error, data, selected_year,
                   selected_mag_range, filtered, avg_mag, fig2, tsunami_count, preview>>

\* Lines 96-122.
Map ==
    /\ pc = "fig3"
    /\ IF ~is_empty(filtered)
       THEN /\ fig_map' = filtered
            /\ rendered' = rendered \cup {"fig_map"}
       ELSE /\ fig_map' = <<>>
            /\ rendered' = rendered \cup {"info"}
    /\ pc' = "map"
    /\ UNCHANGED <<disk, cache, widget_input, error, data, selected_year,
                   selected_mag_range, filtered, avg_mag, fig2, tsunami_count, preview>>

\* Lines 124-131.
Preview ==
    /\ pc = "map"
    /\ preview' = head(filtered, PreviewRows)
    /\ rendered' = rendered \cup {"dataframe"}
    /\ pc' = "done"
    /\ UNCHANGED <<disk, cache, widget_input, error, data, selected_year,
                   selected_mag_range, filtered, avg_mag, fig2, tsunami_count, fig_map>>

\* ------------------------------------------------------------- environment
\* Positions at which the sidebar widgets are on the page.
WidgetsShown == {"selected", "filtered", "fig1", "fig2", "fig3", "map", "done"}

\* The user moves a widget of the finished page: Streamlit reruns the script
\* with the new widget state.  (A widget moved while the run is still going
\* starts the same fresh run, so it adds no state.)
Interact ==
    /\ pc = "done"
    /\ ~is_empty(data)
    /\ \E y \in Range(years(data)) :
       \E r \in slider_positions(min_mag(data), max_mag(data)) :
           widget_input' = <<y, r[1], r[2]>>
    /\ FreshRun
    /\ UNCHANGED <<disk, cache>>

\* The page is loaded again (a new session): the script runs from the top
\* with no widget state, whatever the current run was doing.
Reload ==
    /\ widget_input' = <<>>
    /\ FreshRun
    /\ UNCHANGED <<disk, cache>>

\* The file is deleted or loses its last row while the server is up.
FileRemoved ==
    /\ disk.exists
    /\ disk' = MissingFile
    /\ UNCHANGED <<cache, widget_input, pc, error, run_locals>>

FileTruncated ==
    /\ disk.exists
    /\ disk.rows # <<>>
    /\ disk' = [disk EXCEPT !.rows = SubSeq(disk.rows, 1, Len(disk.rows) - 1)]
    /\ UNCHANGED <<cache, widget_input, pc, error, run_locals>>

Next ==
    \/ Load
    \/ Widgets
    \/ Filter
    \/ Trend
    \/ Scatter
    \/ Pie
    \/ Map
    \/ Preview
    \/ Interact
    \/ Reload
    \/ FileRemoved
    \/ FileTruncated

Spec == Init /\ [][Next]_vars

\* =============================================================== properties
\* Positions of the script after line 43 and after line 48.
AfterWidgets == pc \in WidgetsShown
AfterFilter == pc \in {"filtered", "fig1", "fig2", "fig3", "map", "done"}
AfterLoad == AfterWidgets \/ pc = "loaded" \/ (pc = "error" /\ error = "StreamlitAPIException")

\* f lists, in the order of d, exactly the rows of d whose index is in K.
IsSubsequenceAt(f, d, K) ==
    /\ Len(f) = Cardinality(K)
    /\ \A j \in 1..Len(f) :
           \E i \in K : Cardinality({k \in K : k <= i}) = j /\ f[j] = d[i]

RECURSIVE IndexSum(_, _)
IndexSum(d, K) ==
    IF K = {} THEN 0
    ELSE LET i == CHOOSE k \in K : TRUE IN d[i].magnitude + IndexSum(d, K \ {i})

RECURSIVE CountSum(_, _)
CountSum(t, D) ==
    IF D = {} THEN 0
    ELSE LET k == CHOOSE x \in D : TRUE IN t[k] + CountSum(t, D \ {k})

RowsOfYear(d, y) == {i \in 1..Len(d) : d[i].Year = y}

Matching(d, y, lo, hi) ==
    {i \in RowsOfYear(d, y) : lo <= d[i].magnitude /\ d[i].magnitude <= hi}

\* C1: the filtered view is exactly the subsequence of the record set, in input
\* order, of the records of the selected year whose magnitude lies in the
\* selected range, both bounds included.
C1_FilterExact ==
    AfterFilter =>
        /\ IsSubsequenceAt(filtered, data,
               Matching(data, selected_year, selected_mag_range[1], selected_mag_range[2]))
        /\ \A j \in 1..Len(filtered) :
               /\ filtered[j].Year = selected_year
               /\ selected_mag_range[1] <= filtered[j].magnitude
               /\ filtered[j].magnitude <= selected_mag_range[2]
               /\ filtered[j] \in Range(data)

\* A narrowed range that keeps rows on both of its bounds and drops a row that
\* stands between two kept ones.
C1_Witness ==
    /\ pc = "done"
    /\ Len(filtered) >= 2
    /\ selected_mag_range[1] = selected_mag_range[2]
    /\ \E i, j, k \in 1..Len(data) :
           /\ i < j /\ j < k
           /\ data[i] \in Range(filtered) /\ data[k] \in Range(filtered)
           /\ data[j].Year = selected_year /\ data[j] \notin Range(filtered)

\* m is the smallest (largest) magnitude of the record set d.
IsMinMag(m, d) ==
    (\E i \in 1..Len(d) : d[i].magnitude = m) /\ (\A i \in 1..Len(d) : m <= d[i].magnitude)
IsMaxMag(m, d) ==
    (\E i \in 1..Len(d) : d[i].magnitude = m) /\ (\A i \in 1..Len(d) : d[i].magnitude <= m)

FullRange ==
    IsMinMag(selected_mag_range[1], data) /\ IsMaxMag(selected_mag_range[2], data)

\* C2: with the full observed magnitude range the filter returns exactly the
\* records of the selected year; the criteria of a run without widget state
\* are the latest year and the full range, so they yield all records of the
\* latest year.
C2_FullRangeIsNoOp ==
    AfterFilter =>
        /\ FullRange => IsSubsequenceAt(filtered, data, RowsOfYear(data, selected_year))
        /\ (widget_input = <<>> /\ data # <<>>) =>
               /\ FullRange
               /\ \A i \in 1..Len(data) : data[i].Year <= selected_year
               /\ IsSubsequenceAt(filtered, data, RowsOfYear(data, selected_year))

\* The default criteria over two years and two magnitudes.
C2_Witness ==
    /\ pc = "done"
    /\ widget_input = <<>>
    /\ selected_mag_range[1] < selected_mag_range[2]
    /\ filtered # <<>>
    /\ Len(filtered) < Len(data)
    /\ \E j, k \in 1..Len(filtered) : filtered[j].magnitude < filtered[k].magnitude

\* avg is the per-year mean series of d: one entry per distinct year, strictly
\* ascending, each holding the sum and the number of that year's magnitudes.
IsYearlyAverage(avg, d) ==
    /\ Len(avg) = Cardinality({d[i].Year : i \in 1..Len(d)})
    /\ {avg[j].Year : j \in 1..Len(avg)} = {d[i].Year : i \in 1..Len(d)}
    /\ \A j \in 1..(Len(avg) - 1) : avg[j].Year < avg[j + 1].Year
    /\ \A j \in 1..Len(avg) :
           /\ avg[j].n = Cardinality(RowsOfYear(d, avg[j].Year))
           /\ avg[j].n > 0
           /\ avg[j].total = IndexSum(d, RowsOfYear(d, avg[j].Year))

\* C3: for a non-empty record set the trend series has exactly one entry per
\* distinct year, strictly ascending by year, each the arithmetic mean
\* total / n of that year's magnitudes, which lies between the smallest and the
\* largest magnitude of that year.
C3_YearlyAverage ==
    ("fig1" \in rendered /\ data # <<>>) =>
        /\ IsYearlyAverage(avg_mag, data)
        /\ \A j \in 1..Len(avg_mag) :
               \A i \in RowsOfYear(data, avg_mag[j].Year) :
                   /\ (\A k \in RowsOfYear(data, avg_mag[j].Year) :
                           data[i].magnitude <= data[k].magnitude)
                          => data[i].magnitude * avg_mag[j].n <= avg_mag[j].total
                   /\ (\A k \in RowsOfYear(data, avg_mag[j].Year) :
                           data[k].magnitude <= data[i].magnitude)
                          => avg_mag[j].total <= data[i].magnitude * avg_mag[j].n

\* Two years that appear in descending order in the file, one of them with a
\* mean strictly between two different magnitudes.
C3_Witness ==
    /\ "fig1" \in rendered
    /\ Len(avg_mag) = 2
    /\ data[1].Year = avg_mag[2].Year
    /\ \E j \in 1..2 : \E i \in RowsOfYear(data, avg_mag[j].Year) :
           /\ avg_mag[j].n >= 2
           /\ data[i].magnitude * avg_mag[j].n < avg_mag[j].total

\* t counts the rows of d per tsunami label, listing the labels that occur.
IsTally(t, d) ==
    /\ DOMAIN t \subseteq {"Yes", "No"}
    /\ \A k \in {"Yes", "No"} :
           /\ k \in DOMAIN t <=> \E i \in 1..Len(d) : d[i].tsunami = k
           /\ k \in DOMAIN t => t[k] = Cardinality({i \in 1..Len(d) : d[i].tsunami = k})

\* C4 as stated, for a record set that holds a record: the counts sum to the
\* number of records and both labels are listed, also the one with count zero.
C4_BothKeysPresent ==
    ("fig3" \in rendered /\ data # <<>>) =>
        /\ CountSum(tsunami_count, DOMAIN tsunami_count) = Len(data)
        /\ DOMAIN tsunami_count = {"Yes", "No"}

\* C4 (amended): the counts sum to the number of records, and a label is
\* listed exactly when at least one record carries it, with the number of
\* those records; a label with count zero is not listed.
C4_TallyOfPresentKeys ==
    "fig3" \in rendered =>
        /\ CountSum(tsunami_count, DOMAIN tsunami_count) = Len(data)
        /\ IsTally(tsunami_count, data)
        /\ \A k \in DOMAIN tsunami_count : tsunami_count[k] > 0

\* A record set with records and no tsunami: only "No" is listed.
C4_Witness ==
    /\ "fig3" \in rendered
    /\ Len(data) >= 2
    /\ DOMAIN tsunami_count = {"No"}

\* d is the cleaned form of the raw rows: the rows complete in the five
\* columns, in order, Year cut to an integer, tsunami relabelled.
IsCleaned(d, raw) ==
    LET K == {i \in 1..Len(raw) :
                 /\ raw[i].magnitude # NaN /\ raw[i].depth # NaN /\ raw[i].Year # NaN
                 /\ raw[i].latitude # NaN /\ raw[i].longitude # NaN}
    IN  /\ Len(d) = Cardinality(K)
        /\ \A j \in 1..Len(d) :
               \E i \in K :
                   /\ Cardinality({k \in K : k <= i}) = j
                   /\ d[j].Year * Tenths <= raw[i].Year
                   /\ raw[i].Year < (d[j].Year + 1) * Tenths
                   /\ d[j].magnitude = raw[i].magnitude
                   /\ d[j].depth = raw[i].depth
                   /\ d[j].latitude = raw[i].latitude
                   /\ d[j].longitude = raw[i].longitude
                   /\ d[j].tsunami \in {"Yes", "No"}
                   /\ d[j].tsunami = "Yes" <=> raw[i].tsunami = 1

\* C5: a load that reads the file yields the rows complete in magnitude,
\* depth, Year, latitude and longitude and no others, with an integer year and
\* tsunami "Yes" exactly for the source flag 1; every record of the record set
\* is non-null in the five columns.
C5_LoadCleans ==
    /\ [][(pc = "start" /\ pc' = "loaded" /\ ~cache.hit) => IsCleaned(data', disk.rows)]_vars
    /\ [](\A i \in 1..Len(data) :
              /\ \A c \in {"magnitude", "depth", "Year", "latitude", "longitude"} :
                     data[i][c] # NaN
              /\ data[i].Year \in Int
              /\ data[i].tsunami \in {"Yes", "No"})

\* A load that dropped a row and kept one whose flag is neither 0 nor 1.
C5_Witness ==
    /\ pc = "loaded"
    /\ disk.exists
    /\ IsCleaned(data, disk.rows)
    /\ data # <<>>
    /\ Len(data) < Len(disk.rows)
    /\ \E i \in 1..Len(disk.rows) : disk.rows[i].tsunami \notin {0, 1} /\ NotNa(disk.rows[i])

\* C6 as stated: once the widgets have run, the selected year is one of the
\* years of the record set and the selected range lies inside the observed
\* magnitudes, low <= high.
C6_CriteriaValid ==
    AfterWidgets =>
        /\ \E i \in 1..Len(data) : data[i].Year = selected_year
        /\ \E lo, hi \in {data[i].magnitude : i \in 1..Len(data)} :
               /\ IsMinMag(lo, data) /\ IsMaxMag(hi, data)
               /\ lo <= selected_mag_range[1]
               /\ selected_mag_range[1] <= selected_mag_range[2]
               /\ selected_mag_range[2] <= hi

ScriptStep == Load \/ Widgets \/ Filter \/ Trend \/ Scatter \/ Pie \/ Map \/ Preview

\* C7: a run whose filter has been evaluated is never in an error state and
\* always has a next step until it is done; the map is on the page exactly
\* when the filtered view is non-empty and the informational message exactly
\* when it is empty; the trend, the scatter plot, the pie chart and the
\* preview are produced in both cases.
C7_EmptyResultIsNotAnError ==
    /\ AfterFilter => error = "none"
    /\ (AfterFilter /\ pc # "done") => ENABLED ScriptStep
    /\ pc \in {"map", "done"} =>
           /\ "fig_map" \in rendered <=> filtered # <<>>
           /\ "info" \in rendered <=> filtered = <<>>
           /\ "fig_map" \in rendered => fig_map = filtered
    /\ pc = "done" => {"fig1", "fig2", "fig3", "dataframe"} \subseteq rendered

\* A finished run over a record set with records whose criteria match none.
C7_Witness ==
    /\ pc = "done"
    /\ data # <<>>
    /\ filtered = <<>>
    /\ rendered = {"fig1", "fig2", "fig3", "info", "dataframe"}

LoadErrors == {"FileNotFoundError", "KeyError"}

Unloadable(file) ==
    \/ ~file.exists
    \/ \E c \in {"magnitude", "depth", "Year", "latitude", "longitude", "tsunami"} :
           c \notin file.columns

\* C8: a load that finds the file missing or without a required column ends
\* the run in an error state with nothing memoised; in that state no query
\* has run and nothing is rendered, and the run takes no further step: the
\* only continuation is a new run.
C8_LoadFailureIsFatal ==
    /\ [][(pc = "start" /\ pc' # "start" /\ ~cache.hit /\ Unloadable(disk)) =>
              (pc' = "error" /\ error' \in LoadErrors /\ cache' = cache)]_vars
    /\ [][(pc = "error" /\ error \in LoadErrors) =>
              \/ pc' = "start"
              \/ UNCHANGED <<cache, widget_input, pc, error, run_locals>>]_vars
    /\ []((pc = "error" /\ error \in LoadErrors) =>
              /\ ~cache.hit
              /\ data = <<>> /\ filtered = <<>> /\ avg_mag = <<>> /\ fig2 = <<>>
              /\ tsunami_count = <<>> /\ fig_map = <<>> /\ preview = <<>>
              /\ rendered = {})

\* A run ended by a file that lacks a required column.
C8_Witness ==
    /\ pc = "error"
    /\ error = "KeyError"
    /\ disk.exists
    /\ "magnitude" \notin disk.columns

\* C9: the memo is filled once and never changes afterwards; every run past
\* its load step holds the memoised record set, no step of a run changes it,
\* and no query output exists before the load has completed.
C9_LoadedOnceThenImmutable ==
    /\ [][cache.hit => cache' = cache]_vars
    /\ [][(AfterLoad /\ pc' # "start") => data' = data]_vars
    /\ [](AfterLoad => (cache.hit /\ data = cache.value))
    /\ [](~AfterLoad =>
              /\ filtered = <<>> /\ avg_mag = <<>> /\ tsunami_count = <<>>
              /\ rendered = {})

\* A run started by an interaction that finished on the memoised record set
\* although the file has lost rows that the memo holds.
C9_Witness ==
    /\ pc = "done"
    /\ widget_input # <<>>
    /\ data = cache.value
    /\ disk.exists
    /\ Len(disk.rows) < Len(data)

\* C10 as stated: the pie chart counts the full record set and every other
\* visual, the trend line included, is computed from the filtered view.
C10_OthersUseFilteredView ==
    pc = "done" =>
        /\ IsTally(tsunami_count, data)
        /\ IsYearlyAverage(avg_mag, filtered)
        /\ fig2 = filtered
        /\ filtered # <<>> => fig_map = filtered
        /\ IsSubsequenceAt(preview, filtered, {i \in 1..Len(filtered) : i <= PreviewRows})

\* C10 (amended): the pie chart and the trend line are computed from the full
\* record set whatever the criteria; the scatter plot, the map and the
\* preview (its first 20 rows) use the filtered view.
C10_PieAndTrendUseFullSet ==
    pc = "done" =>
        /\ IsTally(tsunami_count, data)
        /\ IsYearlyAverage(avg_mag, data)
        /\ fig2 = filtered
        /\ filtered # <<>> => fig_map = filtered
        /\ IsSubsequenceAt(preview, filtered, {i \in 1..Len(filtered) : i <= PreviewRows})

\* Criteria that keep more rows than the preview shows and drop rows of both
\* tsunami labels and of another year.
C10_Witness ==
    /\ pc = "done"
    /\ Len(filtered) > PreviewRows
    /\ Len(preview) = PreviewRows
    /\ Len(avg_mag) = 2
    /\ ~IsTally(tsunami_count, filtered)

====
